---- MODULE Spec2Model ----
(***************************************************************************)
(* Stage2Optimizer (optimize_stage2.py): the jump-distance heuristic, the  *)
(* layout decoder, the scorer and the search driver.                       *)
(*                                                                         *)
(* Number representation.  The program computes in floating point; the     *)
(* model computes the same expressions exactly over finite rationals:      *)
(*   - positions (x, y) of a parameter vector are whole pixels;            *)
(*   - speeds are held in tenths (0.5 is 5, 1.5 is 15);                    *)
(*   - calculate_jump_distance takes coordinates counted in 1/Unit pixel   *)
(*     and returns the exact value sqrt(mul*num/den) as [mul, num, den];   *)
(*   - variety and objective values are held multiplied by VARIETY_SCALE   *)
(*     and OBJ_SCALE, the common denominators of their terms.              *)
(* NaN and infinities are outside the model.                               *)
(***************************************************************************)
EXTENDS Integers, Sequences, FiniteSets, TLC

VARIABLES
    pc,                 \* position of the running call
    params,             \* the parameter vector handed to the decoder / objective
    sorted_indices,     \* local of create_platform_sequence (np.argsort result)
    platforms,          \* returned static platform list
    moving_platforms,   \* returned moving platform list
    raised,             \* exception propagated to the caller ("none" if none)
    clearability_score, \* locals of objective_function
    educational_score,
    variety_score,      \* multiplied by VARIETY_SCALE
    objective,          \* return value of objective_function, multiplied by OBJ_SCALE
    n_minimize,         \* number of calls of scipy minimize made by optimize
    nfev,               \* objective evaluations made by the running minimize
    result,             \* the OptimizeResult returned by minimize
    ret,                \* the dict returned by optimize
    jargs,              \* arguments <<x1, y1, x2, y2>> of a calculate_jump_distance call
    jres                \* its return value

vars == <<pc, params, sorted_indices, platforms, moving_platforms, raised,
          clearability_score, educational_score, variety_score, objective,
          n_minimize, nfev, result, ret, jargs, jres>>

evalVars == <<sorted_indices, platforms, moving_platforms, raised,
              clearability_score, educational_score, variety_score, objective>>
optVars == <<n_minimize, nfev, result, ret>>
jumpVars == <<jargs, jres>>

-----------------------------------------------------------------------------
(* Bounds of the model *)

\* coordinates of calculate_jump_distance are integers counting 1/Unit pixel
Unit == 10
\* directly checked jump coordinates range over 0..MaxCoord (in 1/Unit pixel)
MaxCoord == 5
\* input vectors differ from the seed vector x0 in at most MaxChanged slots
MaxChanged == 2
\* wrong-length input vectors have lengths 0..MaxLen (except the right one)
MaxLen == 26
\* objective evaluations one minimize run makes after the one at x0
MaxEvals == 2

-----------------------------------------------------------------------------
(* Game physics constants *)

\* GRAVITY = 0.6 = GRAVITY_NUM / GRAVITY_DEN
GRAVITY_NUM == 3
GRAVITY_DEN == 5
JUMP_FORCE == -12
MOVE_SPEED == 4
GAME_SPEED == 2

Abs(a) == IF a < 0 THEN -a ELSE a
Max(a, b) == IF a >= b THEN a ELSE b
Min(a, b) == IF a <= b THEN a ELSE b

MAX_JUMP_DISTANCE ==
    (2 * Abs(JUMP_FORCE) * MOVE_SPEED * GAME_SPEED * GRAVITY_DEN) \div GRAVITY_NUM
SAFE_JUMP_DISTANCE == (MAX_JUMP_DISTANCE * 7) \div 10

long_transport_min == 400

n_platforms == 6
n_moving == 3
ParamLen == 2 * n_platforms + 4 * n_moving

-----------------------------------------------------------------------------
(* calculate_jump_distance *)

\* the value sqrt(mul * num / den), in pixels; the factor mul is kept apart
\* from num so that no product leaves the 32-bit range of the model's integers
Dist(mul, num, den) == [mul |-> mul, num |-> num, den |-> den]

DistEq(a, b) == a.mul * a.num * b.den = b.mul * b.num * a.den
DistLess(a, b) == a.mul * a.num * b.den < b.mul * b.num * a.den
\* sqrt(mul*num/den) <= t, for a whole number t: mul*num <= t*t*den, that is
\* ceiling(mul*num / (t*t)) <= den, with num split as q*(t*t) + r
DistLeq(a, t) ==
    LET q == a.num \div (t * t)
        r == a.num % (t * t)
    IN  a.mul * q + ((a.mul * r + t * t - 1) \div (t * t)) <= a.den

\* mutant: the vertical distance counts downward jumps too
calculate_jump_distance_abs(x1, y1, x2, y2) ==
    LET horizontal == Abs(x2 - x1)
        vertical == Abs(y2 - y1)
    IN  IF vertical > 0
        THEN Dist(GRAVITY_NUM, horizontal * horizontal,
                  2 * GRAVITY_DEN * Unit * vertical)
        ELSE Dist(1, horizontal * horizontal, Unit * Unit)

\* horizontal / sqrt(2 * vertical / GRAVITY) when vertical > 0, else horizontal.
\* With h = horizontal/Unit and v = vertical/Unit pixels:
\*   (h / sqrt(2 v / G))^2 = G_NUM * horizontal^2 / (2 * G_DEN * Unit * vertical)
calculate_jump_distance(x1, y1, x2, y2) ==
    LET horizontal == Abs(x2 - x1)
        vertical == Max(0, y2 - y1)
    IN  IF vertical > 0
        THEN Dist(GRAVITY_NUM, horizontal * horizontal,
                  2 * GRAVITY_DEN * Unit * vertical)
        ELSE Dist(1, horizontal * horizontal, Unit * Unit)

-----------------------------------------------------------------------------
(* create_platform_sequence *)

StartPlatform == [x1 |-> -500, y1 |-> 500, x2 |-> 300, y2 |-> 500]

\* params[a:b] of a 0-based Python slice, as the 1-based subsequence
Slice(s, a, b) == SubSeq(s, Min(a, Len(s)) + 1, Min(b, Len(s)))

RECURSIVE ArgSortsFrom(_, _)
ArgSortsFrom(xs, rest) ==
    IF rest = {} THEN {<<>>}
    ELSE LET least == {i \in rest : \A j \in rest : xs[i] <= xs[j]}
         IN  UNION {{<<i>> \o t : t \in ArgSortsFrom(xs, rest \ {i})} : i \in least}

\* np.argsort(xs) with the default (unstable) sort: some permutation that
\* sorts xs ascending; among equal values the order is the build's choice
argsort(xs) == ArgSortsFrom(xs, DOMAIN xs)

StaticPlatform(x, y) == [x1 |-> x, y1 |-> y, x2 |-> x + 100, y2 |-> y]

MovingPlatform(config) ==
    [x1 |-> config[1], y1 |-> config[3], x2 |-> config[1] + 80, y2 |-> config[3],
     startX |-> config[1], endX |-> config[2], speed |-> config[4], direction |-> 1]

\* mutant: y is not permuted with x (y_positions[i] in place of y_positions[idx])
create_platform_sequence_unpaired(p, idxs) ==
    LET x_positions == Slice(p, 0, n_platforms)
        y_positions == Slice(p, n_platforms, 2 * n_platforms)
        rest == Slice(p, 2 * n_platforms, Len(p))
    IN  IF Len(y_positions) < Len(x_positions)
        THEN [raised |-> "IndexError", platforms |-> <<>>, moving_platforms |-> <<>>]
        ELSE IF Len(rest) # n_moving * 4
        THEN [raised |-> "ValueError", platforms |-> <<>>, moving_platforms |-> <<>>]
        ELSE [raised |-> "none",
              platforms |-> <<StartPlatform>> \o
                  [i \in 1..Len(idxs) |->
                      StaticPlatform(x_positions[idxs[i]], y_positions[i])],
              moving_platforms |->
                  [i \in 1..n_moving |-> MovingPlatform(SubSeq(rest, 4*i - 3, 4*i))]]

\* mutant: the sort is left out, the platforms keep their slot order
create_platform_sequence_unsorted(p, idxs) ==
    LET x_positions == Slice(p, 0, n_platforms)
        y_positions == Slice(p, n_platforms, 2 * n_platforms)
        rest == Slice(p, 2 * n_platforms, Len(p))
    IN  IF Len(y_positions) < Len(x_positions)
        THEN [raised |-> "IndexError", platforms |-> <<>>, moving_platforms |-> <<>>]
        ELSE IF Len(rest) # n_moving * 4
        THEN [raised |-> "ValueError", platforms |-> <<>>, moving_platforms |-> <<>>]
        ELSE [raised |-> "none",
              platforms |-> <<StartPlatform>> \o
                  [i \in 1..Len(idxs) |-> StaticPlatform(x_positions[i], y_positions[i])],
              moving_platforms |->
                  [i \in 1..n_moving |-> MovingPlatform(SubSeq(rest, 4*i - 3, 4*i))]]

\* mutant: a vector that is too long is accepted, its tail ignored
create_platform_sequence_lenient(p, idxs) ==
    LET x_positions == Slice(p, 0, n_platforms)
        y_positions == Slice(p, n_platforms, 2 * n_platforms)
        rest == Slice(p, 2 * n_platforms, 2 * n_platforms + 4 * n_moving)
    IN  IF Len(y_positions) < Len(x_positions)
        THEN [raised |-> "IndexError", platforms |-> <<>>, moving_platforms |-> <<>>]
        ELSE IF Len(rest) # n_moving * 4
        THEN [raised |-> "ValueError", platforms |-> <<>>, moving_platforms |-> <<>>]
        ELSE [raised |-> "none",
              platforms |-> <<StartPlatform>> \o
                  [i \in 1..Len(idxs) |->
                      StaticPlatform(x_positions[idxs[i]], y_positions[idxs[i]])],
              moving_platforms |->
                  [i \in 1..n_moving |-> MovingPlatform(SubSeq(rest, 4*i - 3, 4*i))]]

\* The body of create_platform_sequence for the permutation idxs that argsort
\* returned.  y_positions[idx] raises IndexError as soon as an index lies
\* beyond y_positions (idxs is a permutation of the indices of x_positions, so
\* that is when y_positions is the shorter); reshape(n_moving, 4) raises
\* ValueError unless exactly n_moving * 4 values are left.
create_platform_sequence(p, idxs) ==
    LET x_positions == Slice(p, 0, n_platforms)
        y_positions == Slice(p, n_platforms, 2 * n_platforms)
        rest == Slice(p, 2 * n_platforms, Len(p))
    IN  IF Len(y_positions) < Len(x_positions)
        THEN [raised |-> "IndexError", platforms |-> <<>>, moving_platforms |-> <<>>]
        ELSE IF Len(rest) # n_moving * 4
        THEN [raised |-> "ValueError", platforms |-> <<>>, moving_platforms |-> <<>>]
        ELSE [raised |-> "none",
              platforms |-> <<StartPlatform>> \o
                  [i \in 1..Len(idxs) |->
                      StaticPlatform(x_positions[idxs[i]], y_positions[idxs[i]])],
              moving_platforms |->
                  [i \in 1..n_moving |-> MovingPlatform(SubSeq(rest, 4*i - 3, 4*i))]]

-----------------------------------------------------------------------------
(* the scorer *)

JumpScore(p1, p2) ==
    LET distance == calculate_jump_distance(Unit * p1.x2, Unit * p1.y1,
                                            Unit * p2.x1, Unit * p2.y1)
    IN  IF DistLeq(distance, SAFE_JUMP_DISTANCE) THEN 100
        ELSE IF DistLeq(distance, MAX_JUMP_DISTANCE) THEN 50
        ELSE -200

RECURSIVE ClearabilityLoop(_, _, _)
ClearabilityLoop(all_platforms, i, score) ==
    IF i > Len(all_platforms) - 1 THEN score
    ELSE ClearabilityLoop(all_platforms, i + 1,
                          score + JumpScore(all_platforms[i], all_platforms[i + 1]))

\* mutant: the jump starts at the left edge p1.x1 instead of the right edge p1.x2
JumpScoreLeftEdge(p1, p2) ==
    LET distance == calculate_jump_distance(Unit * p1.x1, Unit * p1.y1,
                                            Unit * p2.x1, Unit * p2.y1)
    IN  IF DistLeq(distance, SAFE_JUMP_DISTANCE) THEN 100
        ELSE IF DistLeq(distance, MAX_JUMP_DISTANCE) THEN 50
        ELSE -200

RECURSIVE ClearabilityLoopLeftEdge(_, _, _)
ClearabilityLoopLeftEdge(all_platforms, i, score) ==
    IF i > Len(all_platforms) - 1 THEN score
    ELSE ClearabilityLoopLeftEdge(all_platforms, i + 1,
             score + JumpScoreLeftEdge(all_platforms[i], all_platforms[i + 1]))

calculate_clearability_score_leftedge(ps, ms) == ClearabilityLoopLeftEdge(ps \o ms, 1, 0)

\* mutant: an impossible jump costs 1000 instead of 200
RECURSIVE ClearabilityLoopHarsh(_, _, _)
ClearabilityLoopHarsh(all_platforms, i, score) ==
    IF i > Len(all_platforms) - 1 THEN score
    ELSE LET s == JumpScore(all_platforms[i], all_platforms[i + 1])
         IN  ClearabilityLoopHarsh(all_platforms, i + 1,
                                   score + (IF s = -200 THEN -1000 ELSE s))

calculate_clearability_score_harsh(ps, ms) == ClearabilityLoopHarsh(ps \o ms, 1, 0)

calculate_clearability_score(ps, ms) == ClearabilityLoop(ps \o ms, 1, 0)

RECURSIVE EducationalLoop(_, _, _)
EducationalLoop(ms, i, score) ==
    IF i > Len(ms) THEN score
    ELSE LET travel_distance == Abs(ms[i].endX - ms[i].startX)
             a == IF travel_distance >= long_transport_min THEN 100 ELSE 0
             b == IF 5 <= ms[i].speed /\ ms[i].speed <= 15 THEN 50 ELSE 0
         IN  EducationalLoop(ms, i + 1, score + a + b)

calculate_educational_score(ms) == EducationalLoop(ms, 1, 0)

RECURSIVE SumSeq(_, _)
SumSeq(s, i) == IF i > Len(s) THEN 0 ELSE s[i] + SumSeq(s, i + 1)

\* np.var(s) = mean((s - mean(s))^2) = VarNum(s) / Len(s)^2
VarNum(s) == Len(s) * SumSeq([i \in 1..Len(s) |-> s[i] * s[i]], 1)
             - SumSeq(s, 1) * SumSeq(s, 1)

\* variety values are held multiplied by VARIETY_SCALE = 100 * 10^2 * 3^2
VARIETY_SCALE == 100 * (1 + n_platforms + n_moving) * (1 + n_platforms + n_moving)
                 * n_moving * n_moving

\* min(y_variance / 100, 50) + min(speed_variance * 100, 30); speeds are in
\* tenths, so speed_variance * 100 = VarNum(speeds) / Len(speeds)^2
calculate_variety_score(ps, ms) ==
    LET all == ps \o ms
        y_positions == [i \in 1..Len(all) |-> all[i].y1]
        speeds == [i \in 1..Len(ms) |-> ms[i].speed]
        y_term == VarNum(y_positions)
                      * (VARIETY_SCALE \div (100 * Len(y_positions) * Len(y_positions)))
        s_term == VarNum(speeds) * (VARIETY_SCALE \div (Len(speeds) * Len(speeds)))
    IN  Min(y_term, 50 * VARIETY_SCALE) + Min(s_term, 30 * VARIETY_SCALE)

\* objective values are held multiplied by OBJ_SCALE
OBJ_SCALE == 5 * VARIETY_SCALE
PENALTY == 1000

\* -(0.5 * clearability + 0.3 * educational + 0.2 * variety), times OBJ_SCALE
NegTotal(c, e, v) ==
    -((OBJ_SCALE \div 2) * c + ((3 * OBJ_SCALE) \div 10) * e
      + ((2 * OBJ_SCALE) \div (10 * VARIETY_SCALE)) * v)

Blank == [c |-> 0, e |-> 0, v |-> 0]

\* mutant: no try/except, an exception of the decoder propagates
objective_function_uncaught(p, idxs) ==
    LET d == create_platform_sequence(p, idxs)
    IN  IF d.raised # "none"
        THEN [raised |-> d.raised, dec |-> d, scores |-> Blank, value |-> 0]
        ELSE LET c == calculate_clearability_score(d.platforms, d.moving_platforms)
                 e == calculate_educational_score(d.moving_platforms)
                 v == calculate_variety_score(d.platforms, d.moving_platforms)
             IN  [raised |-> "none", dec |-> d,
                  scores |-> [c |-> c, e |-> e, v |-> v],
                  value |-> NegTotal(c, e, v)]

\* The body of objective_function for the permutation idxs that argsort
\* returned: any exception of decoding or scoring is caught and yields 1000.
objective_function(p, idxs) ==
    LET d == create_platform_sequence(p, idxs)
    IN  IF d.raised # "none"
        THEN [raised |-> "none", dec |-> d, scores |-> Blank,
              value |-> PENALTY * OBJ_SCALE]
        ELSE LET c == calculate_clearability_score(d.platforms, d.moving_platforms)
                 e == calculate_educational_score(d.moving_platforms)
                 v == calculate_variety_score(d.platforms, d.moving_platforms)
             IN  [raised |-> "none", dec |-> d,
                  scores |-> [c |-> c, e |-> e, v |-> v],
                  value |-> NegTotal(c, e, v)]

-----------------------------------------------------------------------------
(* the search driver's data: optimize *)

\* x0 = concatenate(linspace(400, 2200, 6), full(6, 500), moving_init)
x0 == <<400, 760, 1120, 1480, 1840, 2200,
        500, 500, 500, 500, 500, 500,
        350, 450, 480, 8,
        800, 1400, 500, 6,
        1800, 1950, 400, 10>>

\* kind of the slot s (1-based) of a parameter vector
SlotKind(s) ==
    IF s <= n_platforms THEN "x"
    ELSE IF s <= 2 * n_platforms THEN "y"
    ELSE CASE (s - 2 * n_platforms - 1) % 4 = 0 -> "x_start"
           [] (s - 2 * n_platforms - 1) % 4 = 1 -> "x_end"
           [] (s - 2 * n_platforms - 1) % 4 = 2 -> "my"
           [] OTHER -> "speed"

\* bounds[s - 1] = (lo, hi); the speed bounds (0.3, 1.5) are in tenths
BoundOf(s) ==
    CASE SlotKind(s) = "x" -> <<300, 2300>>
      [] SlotKind(s) = "y" -> <<300, 550>>
      [] SlotKind(s) = "x_start" -> <<200, 2000>>
      [] SlotKind(s) = "x_end" -> <<400, 2200>>
      [] SlotKind(s) = "my" -> <<300, 550>>
      [] OTHER -> <<3, 15>>

InBounds(p) == \A s \in 1..Len(p) : BoundOf(s)[1] <= p[s] /\ p[s] <= BoundOf(s)[2]

\* mutant: the minimum separation of 100 is left out
OrderConstraintsNoGap(p) == \A i \in 1..(n_platforms - 1) : p[i + 1] - p[i] >= 0

\* constraint i of the first group: x[i+1] - x[i] - 100 >= 0, 0 <= i < n_platforms - 1
OrderConstraints(p) == \A i \in 1..(n_platforms - 1) : p[i + 1] - p[i] - 100 >= 0

\* constraint of the second group: x[e] - x[s] - 50 >= 0
TravelConstraints(p) ==
    \A i \in 0..(n_moving - 1) :
        p[2 * n_platforms + i * 4 + 2] - p[2 * n_platforms + i * 4 + 1] - 50 >= 0

-----------------------------------------------------------------------------
(* inputs *)

\* values a slot is set to, inside and outside the slot's bounds
SlotValues(s) ==
    CASE SlotKind(s) = "x" -> {-600, 300, 760, 2300}
      [] SlotKind(s) = "y" -> {300}
      [] SlotKind(s) = "x_start" -> {2000}
      [] SlotKind(s) = "x_end" -> {400}
      [] SlotKind(s) = "my" -> {300}
      [] OTHER -> {3, 25}

\* values the minimizer moves a slot to; SLSQP keeps its trial vectors inside
\* the bounds, not inside the constraints
TrialValues(s) ==
    CASE SlotKind(s) = "x" -> {300, 760, 2300}
      [] SlotKind(s) = "speed" -> {3}
      [] OTHER -> SlotValues(s)

TrialSteps(p) == UNION {{[p EXCEPT ![s] = v] : v \in TrialValues(s)} : s \in 1..Len(p)}

Steps(p) == UNION {{[p EXCEPT ![s] = v] : v \in SlotValues(s)} : s \in 1..Len(p)}

\* number of slots in which p differs from x0
Changed(p) == Cardinality({s \in 1..Len(p) : p[s] # x0[s]})

\* x0 cut or padded to length n
Resize(n) == [i \in 1..n |-> IF i <= Len(x0) THEN x0[i] ELSE 500]

Inputs == {Resize(n) : n \in 0..MaxLen}

JumpCoords == 0..MaxCoord

\* result.message of scipy's SLSQP
SuccessMessages == {"Optimization terminated successfully"}
FailureMessages == {"Iteration limit reached", "Inequality constraints incompatible"}

-----------------------------------------------------------------------------
(* state *)

NoDist == Dist(1, 0, 1)
NoResult == [success |-> FALSE, x |-> <<>>, fun |-> 0, message |-> ""]
NoRet == [success |-> FALSE, message |-> ""]

EvalBlank ==
    /\ sorted_indices = <<>>
    /\ platforms = <<>>
    /\ moving_platforms = <<>>
    /\ raised = "none"
    /\ clearability_score = 0
    /\ educational_score = 0
    /\ variety_score = 0
    /\ objective = 0

OptBlank ==
    /\ n_minimize = 0
    /\ nfev = 0
    /\ result = NoResult
    /\ ret = NoRet

JumpBlank ==
    /\ jargs = <<0, 0, 0, 0>>
    /\ jres = NoDist

\* a caller holds a parameter vector and is about to decode or to score it
Init ==
    /\ pc = "ready"
    /\ params \in Inputs
    /\ EvalBlank /\ OptBlank /\ JumpBlank

\* optimize has been entered
InitOptimize ==
    /\ pc = "opt_ready"
    /\ params = <<>>
    /\ EvalBlank /\ OptBlank /\ JumpBlank

\* a caller is about to call calculate_jump_distance
InitJump ==
    /\ pc = "jump_ready"
    /\ params = <<>>
    /\ jargs \in JumpCoords \X JumpCoords \X JumpCoords \X JumpCoords
    /\ jres = NoDist
    /\ EvalBlank /\ OptBlank

-----------------------------------------------------------------------------
(* actions *)

\* the caller changes one value of the vector it is about to pass
ChooseInput ==
    /\ pc = "ready"
    /\ Len(params) = ParamLen
    /\ \E p \in Steps(params) :
          /\ Changed(p) <= MaxChanged
          /\ params' = p
    /\ UNCHANGED <<pc, evalVars, optVars, jumpVars>>

\* platforms, moving_platforms = self.create_platform_sequence(params)
CallCreatePlatformSequence ==
    /\ pc = "ready"
    /\ \E idxs \in argsort(Slice(params, 0, n_platforms)) :
          LET d == create_platform_sequence(params, idxs)
          IN  /\ sorted_indices' = idxs
              /\ platforms' = d.platforms
              /\ moving_platforms' = d.moving_platforms
              /\ raised' = d.raised
    /\ pc' = "decoded"
    /\ UNCHANGED <<params, clearability_score, educational_score, variety_score,
                   objective, optVars, jumpVars>>

\* one evaluation self.objective_function(p)
Evaluate(p) ==
    \E idxs \in argsort(Slice(p, 0, n_platforms)) :
        LET r == objective_function(p, idxs)
        IN  /\ sorted_indices' = idxs
            /\ platforms' = r.dec.platforms
            /\ moving_platforms' = r.dec.moving_platforms
            /\ raised' = r.raised
            /\ clearability_score' = r.scores.c
            /\ educational_score' = r.scores.e
            /\ variety_score' = r.scores.v
            /\ objective' = r.value

\* value = self.objective_function(params)
CallObjectiveFunction ==
    /\ pc = "ready"
    /\ Evaluate(params)
    /\ pc' = "scored"
    /\ UNCHANGED <<params, optVars, jumpVars>>

\* optimize up to its call of minimize; SLSQP first evaluates the objective at x0
OptimizeStart ==
    /\ pc = "opt_ready"
    /\ n_minimize' = n_minimize + 1
    /\ nfev' = 1
    /\ params' = x0
    /\ Evaluate(x0)
    /\ pc' = "minimizing"
    /\ UNCHANGED <<result, ret, jumpVars>>

\* the minimizer evaluates the objective at its next trial vector
MinimizeEvaluate ==
    /\ pc = "minimizing"
    /\ nfev <= MaxEvals
    /\ \E p \in TrialSteps(params) :
          /\ params' = p
          /\ Evaluate(p)
    /\ nfev' = nfev + 1
    /\ UNCHANGED <<pc, n_minimize, result, ret, jumpVars>>

\* minimize returns its OptimizeResult: the last iterate and its objective value
MinimizeReturn ==
    /\ pc = "minimizing"
    /\ \E success \in BOOLEAN :
          \E message \in (IF success THEN SuccessMessages ELSE FailureMessages) :
              result' = [success |-> success, x |-> params, fun |-> objective,
                         message |-> message]
    /\ pc' = "minimized"
    /\ UNCHANGED <<params, evalVars, n_minimize, nfev, ret, jumpVars>>

\* mutant: a failed minimization is started again
OptimizeReturnRetry ==
    /\ pc = "minimized"
    /\ IF result.success
       THEN \E idxs \in argsort(Slice(result.x, 0, n_platforms)) :
               LET d == create_platform_sequence(result.x, idxs)
               IN  /\ sorted_indices' = idxs
                   /\ platforms' = d.platforms
                   /\ moving_platforms' = d.moving_platforms
                   /\ raised' = d.raised
                   /\ ret' = [success |-> TRUE, platforms |-> d.platforms,
                              moving_platforms |-> d.moving_platforms,
                              score |-> -result.fun,
                              message |-> "Optimization successful"]
                   /\ pc' = "returned"
                   /\ UNCHANGED <<n_minimize, nfev>>
       ELSE /\ n_minimize <= 1
            /\ n_minimize' = n_minimize + 1
            /\ nfev' = nfev
            /\ pc' = "minimizing"
            /\ UNCHANGED <<sorted_indices, platforms, moving_platforms, raised, ret>>
    /\ UNCHANGED <<params, clearability_score, educational_score, variety_score,
                   objective, result, jumpVars>>

\* optimize from the return of minimize to its own return
OptimizeReturn ==
    /\ pc = "minimized"
    /\ IF result.success
       THEN \E idxs \in argsort(Slice(result.x, 0, n_platforms)) :
               LET d == create_platform_sequence(result.x, idxs)
               IN  /\ sorted_indices' = idxs
                   /\ platforms' = d.platforms
                   /\ moving_platforms' = d.moving_platforms
                   /\ raised' = d.raised
                   /\ ret' = [success |-> TRUE, platforms |-> d.platforms,
                              moving_platforms |-> d.moving_platforms,
                              score |-> -result.fun,
                              message |-> "Optimization successful"]
       ELSE /\ ret' = [success |-> FALSE,
                       message |-> <<"Optimization failed: ", result.message>>]
            /\ UNCHANGED <<sorted_indices, platforms, moving_platforms, raised>>
    /\ pc' = "returned"
    /\ UNCHANGED <<params, clearability_score, educational_score, variety_score,
                   objective, n_minimize, nfev, result, jumpVars>>

\* jres = self.calculate_jump_distance(x1, y1, x2, y2)
CallCalculateJumpDistance ==
    /\ pc = "jump_ready"
    /\ jres' = calculate_jump_distance(jargs[1], jargs[2], jargs[3], jargs[4])
    /\ pc' = "jump_done"
    /\ UNCHANGED <<params, evalVars, optVars, jargs>>

Next == ChooseInput \/ CallCreatePlatformSequence \/ CallObjectiveFunction
NextOptimize == OptimizeStart \/ MinimizeEvaluate \/ MinimizeReturn \/ OptimizeReturn
NextJump == CallCalculateJumpDistance

Spec == Init /\ [][Next]_vars
SpecOptimize == InitOptimize /\ [][NextOptimize]_vars
SpecJump == InitJump /\ [][NextJump]_vars

-----------------------------------------------------------------------------
(* properties *)

RightLength == Len(params) = ParamLen
Decoded == pc \in {"decoded", "scored"} /\ RightLength /\ raised = "none"
XSlots == 1..n_platforms
Identity == [k \in XSlots |-> k]

\* C1 (as claimed): for every vector of length 24, also one outside the search
\* bounds, the decoder succeeds and returns 7 static platforms, the first the
\* fixed start platform, with x1 ascending over the whole list, start platform
\* included, and 3 moving platforms.
C1_WholeListAscending ==
    (pc = "decoded" /\ RightLength) =>
        /\ raised = "none"
        /\ Len(platforms) = 1 + n_platforms
        /\ platforms[1] = StartPlatform
        /\ \A i \in 1..n_platforms : platforms[i].x1 <= platforms[i + 1].x1
        /\ Len(moving_platforms) = n_moving

\* C1 (amended): for every vector of length 24 the decoder succeeds and returns
\* 7 static platforms, the first the fixed start platform, the other 6 with x1
\* ascending among themselves, and 3 moving platforms; the whole list is
\* ascending exactly when no x-position is below the start platform's x1.
C1_StaticsAscending ==
    (pc = "decoded" /\ RightLength) =>
        /\ raised = "none"
        /\ Len(platforms) = 1 + n_platforms
        /\ platforms[1] = [x1 |-> -500, y1 |-> 500, x2 |-> 300, y2 |-> 500]
        /\ \A i \in 2..n_platforms : platforms[i].x1 <= platforms[i + 1].x1
        /\ (platforms[1].x1 <= platforms[2].x1) <=> (\A k \in XSlots : params[k] >= -500)
        /\ Len(moving_platforms) = n_moving

\* C1 witness: a vector with an x-position left of the start platform and its
\* slots out of order has been decoded
C1_Witness ==
    /\ pc = "decoded" /\ RightLength
    /\ \E k \in XSlots : params[k] < -500
    /\ \E k \in 1..(n_platforms - 1) : params[k] > params[k + 1]
    /\ Len(platforms) = 1 + n_platforms

PairsInParams(x, y) ==
    Cardinality({i \in XSlots : params[i] = x /\ params[n_platforms + i] = y})
PairsInLevel(x, y) ==
    Cardinality({j \in 2..Len(platforms) : platforms[j].x1 = x /\ platforms[j].y1 = y})

\* C2: the 6 decoded non-start platforms carry, as a multiset, the pairs
\* (params[i], params[6+i]), and each has x2 = x1 + 100 and y2 = y1.
C2_JointPermutation ==
    Decoded =>
        /\ Len(platforms) = 1 + n_platforms
        /\ \A i \in XSlots :
              PairsInLevel(params[i], params[n_platforms + i])
                  = PairsInParams(params[i], params[n_platforms + i])
        /\ \A j \in 2..Len(platforms) :
              /\ PairsInLevel(platforms[j].x1, platforms[j].y1)
                    = PairsInParams(platforms[j].x1, platforms[j].y1)
              /\ platforms[j].x2 = platforms[j].x1 + 100
              /\ platforms[j].y2 = platforms[j].y1

\* C2 witness: a vector whose x slots are out of order, with different heights
\* in the two slots, has been decoded
C2_Witness ==
    /\ Decoded /\ pc = "decoded"
    /\ \E k \in 1..(n_platforms - 1) :
          /\ params[k] > params[k + 1]
          /\ params[n_platforms + k] # params[n_platforms + k + 1]

\* C3 (as claimed): decoding a vector of any wrong length fails with the error
\* InvalidParameterShape and returns no level.
C3_InvalidParameterShape ==
    (pc = "decoded" /\ ~RightLength) =>
        /\ raised = "InvalidParameterShape"
        /\ platforms = <<>> /\ moving_platforms = <<>>

\* C3 (amended): decoding a vector of any wrong length fails and returns no
\* level; the error is IndexError for the lengths 1..11 and ValueError for the
\* length 0 and every length from 12 on.
C3_WrongLengthRaises ==
    (pc = "decoded" /\ ~RightLength) =>
        /\ raised = (IF Len(params) \in 1..(2 * n_platforms - 1)
                     THEN "IndexError" ELSE "ValueError")
        /\ platforms = <<>> /\ moving_platforms = <<>>

\* C3 witness: a vector that is too long has been handed to the decoder
C3_Witness == pc = "decoded" /\ Len(params) > ParamLen /\ raised = "ValueError"

\* C4: objective_function never lets an error out: when decoding and scoring
\* succeed it returns -(0.5 clearability + 0.3 educational + 0.2 variety), when
\* a step raises it returns the penalty 1000.
C4_PenaltyNotError ==
    pc = "scored" =>
        /\ raised = "none"
        /\ IF RightLength
           THEN objective =
                   -((OBJ_SCALE \div 10) * (5 * clearability_score + 3 * educational_score)
                     + (OBJ_SCALE \div (5 * VARIETY_SCALE)) * variety_score)
           ELSE objective = 1000 * OBJ_SCALE

\* C4 witness: a vector the decoder rejects has been scored with the penalty
C4_Witness == pc = "scored" /\ ~RightLength /\ objective = PENALTY * OBJ_SCALE

\* C5: optimize runs one minimization and returns: on success the level decoded
\* from the final vector and the negated final objective value, on failure the
\* solver's message; a second minimization is never started.
C5_OneMinimization ==
    /\ n_minimize <= 1
    /\ pc = "returned" =>
          /\ n_minimize = 1
          /\ ret.success = result.success
          /\ IF result.success
             THEN /\ \E idxs \in argsort(Slice(result.x, 0, n_platforms)) :
                        LET d == create_platform_sequence(result.x, idxs)
                        IN  /\ ret.platforms = d.platforms
                            /\ ret.moving_platforms = d.moving_platforms
                  /\ Len(ret.platforms) = 1 + n_platforms
                  /\ ret.score = -result.fun
                  /\ result.x = params /\ result.fun = objective
             ELSE /\ DOMAIN ret = {"success", "message"}
                  /\ ret.message = <<"Optimization failed: ", result.message>>

\* C5 witness: optimize has returned a failure after the minimizer moved away
\* from x0
C5_Witness ==
    /\ pc = "returned" /\ ~ret.success /\ nfev > 1 /\ params # x0
    /\ ret.message[2] \in FailureMessages

All == platforms \o moving_platforms
Tier(p1, p2) ==
    LET d == calculate_jump_distance(Unit * p1.x2, Unit * p1.y1,
                                     Unit * p2.x1, Unit * p2.y1)
    IN  IF DistLeq(d, SAFE_JUMP_DISTANCE) THEN 100
        ELSE IF DistLeq(d, MAX_JUMP_DISTANCE) THEN 50 ELSE -200
PairsOfTier(t) == {i \in 1..(Len(All) - 1) : Tier(All[i], All[i + 1]) = t}

\* C6: the clearability score is the sum, over the 9 adjacent pairs of
\* [start] + sorted statics + moving platforms in that order, of +100, +50 or
\* -200 by the jump distance from p1.x2 to p2.x1; it lies in [-1800, 900].
C6_Clearability ==
    (pc = "scored" /\ RightLength) =>
        /\ Len(All) - 1 = 9
        /\ All[1] = StartPlatform
        /\ \A i \in 2..n_platforms : All[i].x1 <= All[i + 1].x1
        /\ \A k \in 1..n_moving :
              /\ All[1 + n_platforms + k].startX = params[2 * n_platforms + 4 * k - 3]
              /\ All[1 + n_platforms + k].x1 = params[2 * n_platforms + 4 * k - 3]
              /\ All[1 + n_platforms + k].y1 = params[2 * n_platforms + 4 * k - 1]
        /\ clearability_score = 100 * Cardinality(PairsOfTier(100))
                                + 50 * Cardinality(PairsOfTier(50))
                                - 200 * Cardinality(PairsOfTier(-200))
        /\ -1800 <= clearability_score /\ clearability_score <= 900

\* C6 witness: a scored layout with a pair of each of the three kinds
C6_Witness ==
    /\ pc = "scored" /\ RightLength
    /\ PairsOfTier(100) # {} /\ PairsOfTier(50) # {} /\ PairsOfTier(-200) # {}

TimeFactorIsOne(vertical) == 2 * GRAVITY_DEN * vertical = GRAVITY_NUM * Unit

\* C7 (as claimed): the jump distance is unchanged when x1 and x2 are swapped,
\* and changes when y1 and y2 are swapped, whenever y1 # y2.
C7_VerticalAsymmetry ==
    pc = "jump_done" =>
        /\ DistEq(jres, calculate_jump_distance(jargs[3], jargs[2], jargs[1], jargs[4]))
        /\ jargs[2] # jargs[4] =>
              ~DistEq(jres, calculate_jump_distance(jargs[1], jargs[4], jargs[3], jargs[2]))

\* C7 (amended): the jump distance is unchanged when x1 and x2 are swapped;
\* when y1 # y2, swapping y1 and y2 changes it unless x1 = x2 (both are 0) or
\* the time factor sqrt(2 |y2 - y1| / GRAVITY) is 1, that is |y2 - y1| = 0.3.
C7_AsymmetryUnlessDegenerate ==
    pc = "jump_done" =>
        /\ DistEq(jres, calculate_jump_distance(jargs[3], jargs[2], jargs[1], jargs[4]))
        /\ jargs[2] # jargs[4] =>
              (DistEq(jres, calculate_jump_distance(jargs[1], jargs[4], jargs[3], jargs[2]))
                  <=> (jargs[1] = jargs[3] \/ TimeFactorIsOne(Abs(jargs[4] - jargs[2]))))

\* C7 witness: a jump with a horizontal gap, over a height difference whose time
\* factor is not 1, has been measured and differs from the swapped one
C7_Witness ==
    /\ pc = "jump_done"
    /\ jargs[1] # jargs[3] /\ jargs[2] # jargs[4]
    /\ ~TimeFactorIsOne(Abs(jargs[4] - jargs[2]))
    /\ ~DistEq(jres, calculate_jump_distance(jargs[1], jargs[4], jargs[3], jargs[2]))

\* C8 (as claimed): for x1 # x2 an upward jump (y2 > y1) is never shorter than
\* the flat jump |x2 - x1|, and the distance does not decrease as y2 - y1 grows.
C8_ClimbIsFurther ==
    (pc = "jump_done" /\ jargs[1] # jargs[3] /\ jargs[4] > jargs[2]) =>
        /\ ~DistLess(jres, Dist(1, Abs(jargs[3] - jargs[1]) * Abs(jargs[3] - jargs[1]),
                                Unit * Unit))
        /\ \A y \in JumpCoords :
              y > jargs[4] =>
                  ~DistLess(calculate_jump_distance(jargs[1], jargs[2], jargs[3], y), jres)

\* C9: for a vector inside the box bounds that meets the slot-order constraints
\* the sorting permutation is the identity, platform k comes from slot k, and
\* consecutive static platforms, start included, do not overlap horizontally.
C9_FeasibleKeepsSlotOrder ==
    (Decoded /\ InBounds(params) /\ OrderConstraints(params)) =>
        /\ sorted_indices = Identity
        /\ \A k \in XSlots :
              /\ platforms[k + 1].x1 = params[k]
              /\ platforms[k + 1].y1 = params[n_platforms + k]
        /\ \A i \in 1..n_platforms : platforms[i].x2 <= platforms[i + 1].x1

\* C9 witness: a feasible vector other than x0, its first platform touching the
\* start platform, has been decoded
C9_Witness ==
    /\ Decoded /\ InBounds(params) /\ OrderConstraints(params)
    /\ params # x0
    /\ platforms[1].x2 = platforms[2].x1

\* C10: a layout that decodes and scores gets an objective value of at most
\* 900, below the penalty 1000, so 1000 is returned exactly on a failure.
C10_PenaltyIsWorst ==
    pc = "scored" =>
        /\ RightLength =>
              /\ clearability_score >= -1800
              /\ educational_score >= 0
              /\ variety_score >= 0
              /\ objective <= 900 * OBJ_SCALE
              /\ objective < 1000 * OBJ_SCALE
        /\ (objective = 1000 * OBJ_SCALE) <=> ~RightLength

\* C10 witness: a layout with impossible jumps has been scored worse than 0
C10_Witness == pc = "scored" /\ RightLength /\ objective > 0 /\ clearability_score < 0

====
